---- MODULE Spec2Model ----
(***************************************************************************)
(* Model of the run loop of intek/application/etl.py: the family           *)
(* registrations loaded from the input source are reconciled against the   *)
(* master list (a Google Sheets document), each new registration is sent   *)
(* its confirmation e-mail and inserted in the master list.                *)
(*                                                                         *)
(* The model covers the runs where an output Google Sheets document is     *)
(* given (arguments.output_google_spreadsheet_id), which are the runs that *)
(* reconcile, insert and notify.                                           *)
(***************************************************************************)
EXTENDS Integers, Sequences, FiniteSets, TLC

\* ------------------------------------------------------------------ bounds
\* Largest number of registrations (rows) of the input source.
MaxBatch == 2
\* Registration identifications are drawn from 1..MaxId.
MaxId == 2
\* Largest number of children of a registration (4 groups in the program).
MaxChildren == 2
\* Largest number of cycles of the main loop that are explored.
MaxCycles == 3
\* Largest number of remote failures injected in a behaviour.
MaxFailures == 1
\* Largest number of operator interrupts injected in a behaviour.
MaxInterrupts == 1

\* ------------------------------------------------------- program constants
\* First row of the master list read by fetch_processed_registration_ids
\* (range 'A3:M'): the two rows above it are the header of the sheet.
FIRST_REGISTRATION_ROW == 3

\* Largest number of sheets of the master list document.
MaxLedgerSheets == 2

\* The check of the number of sheets left out.
TooManySheets_never(sheet_count) == FALSE

\* The functions that use the master list require that the document holds
\* one sheet only: `if len(sheet_names) > 1: raise ValueError`.
TooManySheets(sheet_count) == sheet_count > 1

\* An except clause that catches every exception.
CaughtExceptions_all ==
    {"HttpError", "socket.timeout", "SMTPException", "ValueError",
     "MalformedLocaleException"}

\* Exception classes caught by the main loop (except clause of run).
CaughtExceptions == {"HttpError", "socket.timeout"}

\* Exceptions that a request to the Google Sheets API can raise.
SheetsExceptions == {"HttpError", "socket.timeout"}

\* Exceptions that the SMTP transport (email_util.send_email, built on
\* smtplib) can raise: a timeout of the socket, or an SMTP error such as a
\* disconnection of the server.
MailExceptions == {"socket.timeout", "SMTPException"}

\* ------------------------------------------------------------ sheet model
\* A row of the master list is reduced to the content of its column A (the
\* registration ID; 0 when the cell is blank, HEADER_TEXT for a header
\* label) and to the child stored in the columns C:E (c > 0) if any.
HEADER_TEXT == -1

EmptyRow == [a |-> 0, c |-> 0]
HeaderRow == [a |-> HEADER_TEXT, c |-> 0]

IsUsedRow(row) == row # EmptyRow
HasColumnA(row) == row.a # 0

RECURSIVE LastUsedRow(_, _)
\* Index of the last row r <= n of the sheet that is not empty, 0 when
\* there is none.
LastUsedRow(sheet, n) ==
    IF n = 0 THEN 0
    ELSE IF IsUsedRow(sheet[n]) THEN n
    ELSE LastUsedRow(sheet, n - 1)

RECURSIVE LastColumnARow(_, _)
\* Index of the last row r <= n of the sheet whose first column is not
\* empty, 0 when there is none.
LastColumnARow(sheet, n) ==
    IF n = 0 THEN 0
    ELSE IF HasColumnA(sheet[n]) THEN n
    ELSE LastColumnARow(sheet, n - 1)

\* read_google_sheet_values(..., 'A{first}:M'): the Google Sheets API
\* returns the rows of the range down to the last row that is not empty,
\* an empty row in between being returned as an empty list.
ReadRowsFrom(sheet, first) ==
    LET last == LastUsedRow(sheet, Len(sheet))
    IN  [i \in 1..(IF last >= first THEN last - first + 1 ELSE 0) |-> sheet[first + i - 1]]

\* read_google_sheet_values(..., 'A1:A'): the values of the first column
\* down to the last row whose first column is not empty.
ReadColumnA(sheet) ==
    LET last == LastColumnARow(sheet, Len(sheet))
    IN  [i \in 1..last |-> sheet[i].a]

\* read_google_sheet_values(..., 'A{r}:M{r}'): one row, an empty list of
\* values when the row is empty or beyond the end of the sheet.
ReadRow(sheet, r) ==
    IF r <= Len(sheet) /\ IsUsedRow(sheet[r]) THEN <<sheet[r]>> ELSE <<>>

\* spreadsheets_resource.values().update(range=A{start}, values=rows): the
\* rows are written from the row `start` downwards, over whatever these
\* rows contain.
UpdateSheet(sheet, start, rows) ==
    IF Len(rows) = 0 THEN sheet
    ELSE LET last == start + Len(rows) - 1
             n == IF last > Len(sheet) THEN last ELSE Len(sheet)
         IN  [r \in 1..n |->
                IF r >= start /\ r <= last THEN rows[r - start + 1]
                ELSE IF r <= Len(sheet) THEN sheet[r]
                ELSE EmptyRow]

\* ------------------------------------------------------- pure functions
\* build_registration_rows: one row per child, the first one carries the
\* registration ID.
build_registration_rows(registration) ==
    [i \in 1..registration.children |->
        [a |-> IF i = 1 THEN registration.registration_id ELSE 0, c |-> i]]

\* fetch_processed_registration_ids raises when a row read from 'A3:M' has
\* no value at all (values[0] of an empty list) or when its first cell has
\* no digit (int('')).
FetchRaises(sheet) ==
    \E r \in 1..Len(ReadRowsFrom(sheet, FIRST_REGISTRATION_ROW)) :
        LET values == ReadRowsFrom(sheet, FIRST_REGISTRATION_ROW)[r]
        IN  values = EmptyRow \/ values.a = HEADER_TEXT

\* fetch_processed_registration_ids: the IDs found in the first column of
\* the rows read from 'A3:M'.
fetch_processed_registration_ids(sheet) ==
    LET rows == ReadRowsFrom(sheet, FIRST_REGISTRATION_ROW)
    IN  {rows[r].a : r \in {x \in 1..Len(rows) : rows[x].a # 0}}

RECURSIVE WalkUsedRows(_, _)
\* The loop of get_sheet_used_row_count: read each consecutive row from
\* row_index until a row is empty.
WalkUsedRows(sheet, row_index) ==
    IF ReadRow(sheet, row_index) = <<>> THEN row_index
    ELSE WalkUsedRows(sheet, row_index + 1)

\* get_sheet_used_row_count without its loop over the rows that follow the
\* last row whose first column is filled.
get_sheet_used_row_count_without_loop(sheet) ==
    Len(ReadColumnA(sheet))

\* get_sheet_used_row_count
get_sheet_used_row_count(sheet) ==
    WalkUsedRows(sheet, Len(ReadColumnA(sheet)) + 1) - 1

\* The selection with `in` in place of `not in`.
NewRegistrations_in(registrations, processed_registration_ids) ==
    SelectSeq(registrations,
              LAMBDA registration :
                  registration.registration_id \in processed_registration_ids)

\* The list comprehension of run that keeps the registrations not already
\* processed.
NewRegistrations(registrations, processed_registration_ids) ==
    SelectSeq(registrations,
              LAMBDA registration :
                  registration.registration_id \notin processed_registration_ids)

\* process_registration with its two statements swapped.
ProcessRegistrationOrder_swapped == <<"insert", "mail">>

\* process_registration: the order of its two statements.
ProcessRegistrationOrder == <<"mail", "insert">>

\* does_loop = arguments.loop and input_google_spreadsheet_id
DoesLoop(args) == args.loop /\ args.input = "sheet"

\* The end of a cycle without `if not does_loop: break`.
AfterCycle_without_break(args) == "sleep"

\* The end of a cycle: `if not does_loop: break`, else sleep.
AfterCycle(args) == IF DoesLoop(args) THEN "sleep" ELSE "done"

\* ------------------------------------------------------------------ state
VARIABLES
    arguments,      \* command line: [loop, input]
    source,         \* registrations of the input source, in source order
    ledger,         \* rows of the master list
    pc,             \* position of the main loop
    registrations,  \* registrations loaded in this cycle
    processed_registration_ids,
    new_registrations,
    row_count,
    k,              \* index in new_registrations of the current registration
    step,           \* next statement of process_registration (1 or 2)
    cycle,          \* number of cycles started
    failures,       \* number of remote failures raised
    interrupts,     \* number of operator interrupts delivered
    notified,       \* per source row: number of e-mails sent
    inserted,       \* per source row: number of insertions in the ledger
    cycle_log,      \* e-mails and insertions of the current cycle, in order
    cycle_used,     \* highest used row of the ledger when the cycle started
    abort,          \* the last cycle aborted: how, and what it had done
    ledger_sheets,  \* number of sheets of the master list document
    ledger_read,    \* a range of cells of the master list has been read
    registration_ids_cache, \* Registration.__registration_ids_cache
    fn              \* call of a function checked on its own: input, result

vars == <<arguments, source, ledger, pc, registrations,
          processed_registration_ids, new_registrations, row_count, k, step,
          cycle, failures, interrupts, notified, inserted, cycle_log,
          cycle_used, abort, ledger_sheets, ledger_read,
          registration_ids_cache, fn>>

Registrations(n) ==
    {s \in [1..n -> [row : 1..n, registration_id : 1..MaxId,
                     children : 0..MaxChildren, error : BOOLEAN]] :
        \A i \in 1..n :
            /\ s[i].row = i
            /\ s[i].error => s[i].registration_id = 1 /\ s[i].children = 0}

Sources == UNION {Registrations(n) : n \in 0..MaxBatch}

NoAbort == [kind |-> "none", cycle |-> 0, pc |-> "none", row |-> 0, log |-> <<>>]

\* The command lines: the loop flag, the input given (a CSV file, a Google
\* Sheets ID, both or neither) and, with a CSV file, the locale argument
\* (a locale, none, or a string that is not a locale).
Arguments ==
    {a \in [loop : BOOLEAN, input : {"csv", "sheet", "both", "neither"},
            locale : {"fra", "none", "bad"}] :
        a.input # "csv" => a.locale = "none"}

\* The value of fn in the main loop, which calls no function on its own.
NoCall == <<>>

Init ==
    /\ arguments \in Arguments
    /\ source \in Sources
    /\ ledger \in {<<>>, <<HeaderRow, HeaderRow>>}
    /\ ledger_sheets \in 1..MaxLedgerSheets
    /\ ledger_read = FALSE
    /\ registration_ids_cache = {}
    /\ fn = NoCall
    /\ pc = "start"
    /\ registrations = <<>>
    /\ processed_registration_ids = {}
    /\ new_registrations = <<>>
    /\ row_count = 0
    /\ k = 0
    /\ step = 1
    /\ cycle = 0
    /\ failures = 0
    /\ interrupts = 0
    /\ notified = [r \in 1..Len(source) |-> 0]
    /\ inserted = [r \in 1..Len(source) |-> 0]
    /\ cycle_log = <<>>
    /\ cycle_used = 0
    /\ abort = NoAbort

\* ---------------------------------------------------------------- actions
\* The handling of an exception raised in the try block of the main loop:
\* the except clause sleeps, any other exception leaves run.
Handled(exception) ==
    IF exception \in CaughtExceptions THEN "sleep_failed" ELSE "crashed"

\* The checks of run before its main loop: exactly one of the CSV file and
\* of the input Google Sheets ID must be given (ValueError otherwise,
\* raised outside of the try block).
CheckArguments ==
    /\ pc = "start"
    /\ pc' = IF arguments.input \in {"both", "neither"} THEN "crashed"
             ELSE "ingest"
    /\ UNCHANGED <<registration_ids_cache, fn, ledger_sheets, arguments, source, ledger, registrations,
                   processed_registration_ids, new_registrations, row_count,
                   k, step, cycle, failures, interrupts, notified, inserted,
                   cycle_log, cycle_used, abort, ledger_read>>

\* The loading of the registrations when the rows that from_row rejects
\* are left out of the batch instead of raising.
LoadError_without_rows ==
    CASE arguments.input = "csv" /\ arguments.locale = "none" -> "ValueError"
      [] arguments.input = "csv" /\ arguments.locale = "bad" -> "MalformedLocaleException"
      [] OTHER -> "none"

\* The exception that the loading of the registrations raises by itself:
\* no locale passed with a CSV file (ValueError), a string that is not a
\* locale (Locale.MalformedLocaleException), a row that Registration.from_row
\* rejects (ValueError and the like); "none" when the batch loads.
LoadError ==
    CASE arguments.input = "csv" /\ arguments.locale = "none" -> "ValueError"
      [] arguments.input = "csv" /\ arguments.locale = "bad" -> "MalformedLocaleException"
      [] \E r \in 1..Len(source) : source[r].error -> "ValueError"
      [] OTHER -> "none"

\* The IDs that the loading of the registrations generates, each one added
\* to Registration.__registration_ids_cache: the IDs of the rows mapped
\* until a row is rejected, none when the locale of the CSV file is wrong.
GeneratedIds ==
    IF arguments.input = "csv" /\ arguments.locale # "fra" THEN {}
    ELSE {source[r].registration_id :
             r \in {x \in 1..Len(source) : \A y \in 1..x : ~source[y].error}}

\* RegistrationForm.__generate_registration_id of upmd/form/aggregator.py:
\* ValueError when the ID generated is already in the cache.
DuplicateIdError_upmd(cache, batch) ==
    \/ \E r \in 1..Len(batch) : batch[r].registration_id \in cache
    \/ \E r, s \in 1..Len(batch) :
           r # s /\ batch[r].registration_id = batch[s].registration_id

\* Registration.__generate_registration_id: the check of the ID against
\* the cache is commented out, the ID is added to the cache and returned.
DuplicateIdError(cache, batch) == FALSE

\* load_registrations_from_csv_file / load_registrations_from_google_sheet:
\* the start of a cycle.
LoadRegistrations ==
    /\ pc = "ingest"
    /\ cycle < MaxCycles
    /\ cycle' = cycle + 1
    /\ cycle_log' = <<>>
    /\ cycle_used' = LastUsedRow(ledger, Len(ledger))
    /\ registration_ids_cache' = registration_ids_cache \cup GeneratedIds
    /\ IF LoadError # "none"
       THEN /\ pc' = Handled(LoadError)
            /\ UNCHANGED registrations
       ELSE IF DuplicateIdError(registration_ids_cache, source)
       THEN /\ pc' = Handled("ValueError")
            /\ UNCHANGED registrations
       ELSE /\ registrations' = source
            /\ pc' = "fetch"
    /\ UNCHANGED <<fn, ledger_sheets, arguments, source, ledger, processed_registration_ids,
                   new_registrations, row_count, k, step, failures,
                   interrupts, notified, inserted, abort, ledger_read>>

\* fetch_processed_registration_ids, then the selection of the new
\* registrations.
FetchProcessedRegistrationIds ==
    /\ pc = "fetch"
    /\ IF TooManySheets(ledger_sheets)
       THEN /\ pc' = Handled("ValueError")
            /\ UNCHANGED <<processed_registration_ids, new_registrations,
                           ledger_read>>
       ELSE IF FetchRaises(ledger)
       THEN /\ pc' = "crashed"
            /\ ledger_read' = TRUE
            /\ UNCHANGED <<processed_registration_ids, new_registrations>>
       ELSE /\ ledger_read' = TRUE
            /\ processed_registration_ids' = fetch_processed_registration_ids(ledger)
            /\ new_registrations' =
                   NewRegistrations(registrations, processed_registration_ids')
            /\ pc' = IF new_registrations' # <<>> THEN "count"
                     ELSE AfterCycle(arguments)
    /\ UNCHANGED <<registration_ids_cache, fn, ledger_sheets, arguments, source, ledger, registrations, row_count, k,
                   step, cycle, failures, interrupts, notified, inserted,
                   cycle_log, cycle_used, abort>>

\* get_sheet_used_row_count, when there are new registrations.
GetSheetUsedRowCount ==
    /\ pc = "count"
    /\ IF TooManySheets(ledger_sheets)
       THEN /\ pc' = Handled("ValueError")
            /\ UNCHANGED <<row_count, k, step, ledger_read>>
       ELSE /\ row_count' = get_sheet_used_row_count(ledger)
            /\ ledger_read' = TRUE
            /\ k' = 1
            /\ step' = 1
            /\ pc' = "process"
    /\ UNCHANGED <<registration_ids_cache, fn, ledger_sheets, arguments, source, ledger, registrations,
                   processed_registration_ids, new_registrations, cycle,
                   failures, interrupts, notified, inserted, cycle_log,
                   cycle_used, abort>>

\* What follows a statement of process_registration: its next statement,
\* or `row_count += len(registration.children)` and the next registration.
NextStatement ==
    IF step < Len(ProcessRegistrationOrder)
    THEN /\ step' = step + 1
         /\ UNCHANGED <<row_count, k>>
         /\ pc' = "process"
    ELSE /\ step' = 1
         /\ row_count' = row_count + new_registrations[k].children
         /\ k' = k + 1
         /\ pc' = IF k < Len(new_registrations) THEN "process"
                  ELSE AfterCycle(arguments)

\* send_registration_confirmation_email for the current registration.
SendRegistrationConfirmationEmail ==
    /\ pc = "process"
    /\ ProcessRegistrationOrder[step] = "mail"
    /\ LET registration == new_registrations[k]
       IN  /\ notified' = [notified EXCEPT ![registration.row] = @ + 1]
           /\ cycle_log' = Append(cycle_log,
                  [op |-> "mail", row |-> registration.row, start |-> 0, n |-> 0])
    /\ NextStatement
    /\ UNCHANGED <<registration_ids_cache, fn, ledger_sheets, ledger_read, arguments, source, ledger, registrations,
                   processed_registration_ids, new_registrations, cycle,
                   failures, interrupts, inserted, cycle_used, abort>>

\* insert_registration_to_master_list for the current registration, at the
\* range A{row_count + 1}.
InsertRegistrationToMasterList ==
    /\ pc = "process"
    /\ ProcessRegistrationOrder[step] = "insert"
    /\ IF TooManySheets(ledger_sheets)
       THEN /\ pc' = Handled("ValueError")
            /\ UNCHANGED <<ledger, inserted, cycle_log, row_count, k, step>>
       ELSE /\ LET registration == new_registrations[k]
               IN  /\ ledger' = UpdateSheet(ledger, row_count + 1,
                                            build_registration_rows(registration))
                   /\ inserted' = [inserted EXCEPT ![registration.row] = @ + 1]
                   /\ cycle_log' = Append(cycle_log,
                          [op |-> "insert", row |-> registration.row,
                           start |-> row_count + 1, n |-> registration.children])
            /\ NextStatement
    /\ UNCHANGED <<registration_ids_cache, fn, ledger_sheets, ledger_read, arguments, source, registrations,
                   processed_registration_ids, new_registrations, cycle,
                   failures, interrupts, notified, cycle_used, abort>>

\* time.sleep(DEFAULT_IDLE_TIME_BETWEEN_CONSECUTIVE_EXECUTION) at the end of
\* a cycle, then the next iteration of `while True`.
IdleWait ==
    /\ pc = "sleep"
    /\ pc' = "ingest"
    /\ UNCHANGED <<registration_ids_cache, fn, ledger_sheets, ledger_read, arguments, source, ledger, registrations,
                   processed_registration_ids, new_registrations, row_count,
                   k, step, cycle, failures, interrupts, notified, inserted,
                   cycle_log, cycle_used, abort>>

\* time.sleep(...) of the except clause, then the next iteration.
RetryWait ==
    /\ pc = "sleep_failed"
    /\ pc' = "ingest"
    /\ UNCHANGED <<registration_ids_cache, fn, ledger_sheets, ledger_read, arguments, source, ledger, registrations,
                   processed_registration_ids, new_registrations, row_count,
                   k, step, cycle, failures, interrupts, notified, inserted,
                   cycle_log, cycle_used, abort>>

\* The exceptions that the remote request pending at this position of the
\* loop can raise.
Raisable ==
    CASE pc = "ingest" /\ arguments.input = "sheet" -> SheetsExceptions
      [] pc \in {"fetch", "count"} -> SheetsExceptions
      [] pc = "process" /\ ProcessRegistrationOrder[step] = "mail" -> MailExceptions
      [] pc = "process" /\ ProcessRegistrationOrder[step] = "insert" -> SheetsExceptions
      [] OTHER -> {}

\* The source row of the registration being processed, 0 outside of the
\* loop over the new registrations.
CurrentRow == IF pc = "process" THEN new_registrations[k].row ELSE 0

\* A remote request fails: `except (HttpError, socket.timeout)` of run, any
\* other exception leaves run.
RemoteFailure ==
    /\ failures < MaxFailures
    /\ (pc = "ingest" => cycle < MaxCycles)
    /\ \E exception \in Raisable :
          pc' = Handled(exception)
    /\ failures' = failures + 1
    /\ abort' = [kind |-> "failure", cycle |-> cycle, pc |-> pc,
                 row |-> CurrentRow, log |-> cycle_log]
    /\ UNCHANGED <<registration_ids_cache, fn, ledger_sheets, ledger_read, arguments, source, ledger, registrations,
                   processed_registration_ids, new_registrations, row_count,
                   k, step, cycle, interrupts, notified, inserted, cycle_log,
                   cycle_used>>

\* The operator presses Ctrl-C: `except KeyboardInterrupt` of run logs a
\* message, and the `while True` loop goes on.  An interrupt raised while
\* the except clause of the remote failures sleeps is not handled.
KeyboardInterrupt ==
    /\ interrupts < MaxInterrupts
    /\ pc \in {"ingest", "fetch", "count", "process", "sleep", "sleep_failed"}
    /\ (pc = "ingest" => cycle < MaxCycles)
    /\ pc' = IF pc = "sleep_failed" THEN "crashed" ELSE "ingest"
    /\ interrupts' = interrupts + 1
    /\ abort' = [kind |-> "interrupt", cycle |-> cycle, pc |-> pc,
                 row |-> CurrentRow, log |-> cycle_log]
    /\ UNCHANGED <<registration_ids_cache, fn, ledger_sheets, ledger_read, arguments, source, ledger, registrations,
                   processed_registration_ids, new_registrations, row_count,
                   k, step, cycle, failures, notified, inserted, cycle_log,
                   cycle_used>>

Next ==
    \/ CheckArguments
    \/ LoadRegistrations
    \/ FetchProcessedRegistrationIds
    \/ GetSheetUsedRowCount
    \/ SendRegistrationConfirmationEmail
    \/ InsertRegistrationToMasterList
    \/ IdleWait
    \/ RetryWait
    \/ RemoteFailure
    \/ KeyboardInterrupt

Spec == Init /\ [][Next]_vars

\* ============================================================== properties
\* A cycle has run to its end: the loop sleeps before the next cycle, or
\* has left `while True`.
CycleCompleted == pc \in {"sleep", "done"}

SourceIds == {source[r].registration_id : r \in 1..Len(source)}

RECURSIVE SumUpTo(_, _, _)
\* Sum of count[r] for the source rows r <= n of the registration `id`.
SumUpTo(count, id, n) ==
    IF n = 0 THEN 0
    ELSE SumUpTo(count, id, n - 1)
         + (IF source[n].registration_id = id THEN count[n] ELSE 0)

\* Number of e-mails sent for the registration `id`.
MailCount(id) == SumUpTo(notified, id, Len(source))

\* Number of rows of the ledger whose first column holds `id`.
LedgerCount(id) == Cardinality({r \in 1..Len(ledger) : ledger[r].a = id})

\* The source rows that a log shows both notified and inserted.
FullyProcessed(log) ==
    {r \in 1..Len(source) :
        /\ \E i \in 1..Len(log) : log[i].op = "mail" /\ log[i].row = r
        /\ \E i \in 1..Len(log) : log[i].op = "insert" /\ log[i].row = r}

\* The insertions of the current cycle, in order.
Insertions == SelectSeq(cycle_log, LAMBDA e : e.op = "insert")

\* C1: whenever a cycle has completed, whatever failures and interrupts
\* came before, every registration ID of the source is in exactly one row
\* of the ledger and exactly one confirmation e-mail was sent for it.
C1_ExactlyOnce ==
    CycleCompleted =>
        \A id \in SourceIds : LedgerCount(id) = 1 /\ MailCount(id) = 1

\* C2: the second of two cycles that run undisturbed on the same batch
\* inserts no row and sends no e-mail, whatever the initial ledger.
C2_SecondRunNoOp ==
    (CycleCompleted /\ cycle = 2 /\ failures = 0 /\ interrupts = 0)
        => cycle_log = <<>>

\* C3: the new registrations are exactly the registrations of the batch
\* whose ID is not among the processed IDs, in the order of the batch, and
\* the selection run again with the IDs just selected added to the
\* processed IDs is empty.
C3_Diff ==
    (cycle >= 1 /\ pc \in {"count", "process", "sleep", "done"}) =>
        LET E == processed_registration_ids
            B == registrations
            R == new_registrations
            ids == {R[i].registration_id : i \in 1..Len(R)}
        IN  /\ \A i \in 1..Len(R) :
                  /\ R[i].registration_id \notin E
                  /\ \E j \in 1..Len(B) : B[j] = R[i]
            /\ \A j \in 1..Len(B) :
                  B[j].registration_id \notin E
                      => Cardinality({i \in 1..Len(R) : R[i] = B[j]}) = 1
            /\ \A i, j \in 1..Len(R) : i < j => R[i].row < R[j].row
            /\ NewRegistrations(B, E \cup ids) = <<>>

\* C3 witness: the selection dropped a processed registration and kept a
\* new one.
C3_Witness ==
    /\ pc = "count"
    /\ processed_registration_ids # {}
    /\ new_registrations # <<>>
    /\ Len(new_registrations) < Len(registrations)

C5_AtMostOneTwice ==
    (/\ CycleCompleted
     /\ abort.kind = "failure" /\ abort.pc = "process"
     /\ failures = 1 /\ interrupts = 0
     /\ cycle = abort.cycle + 1)
        => /\ Cardinality({r \in 1..Len(source) :
                              notified[r] > 1 \/ inserted[r] > 1}) <= 1
           /\ \A r \in FullyProcessed(abort.log) :
                  notified[r] = 1 /\ inserted[r] = 1

\* C6 (state part): the insertions of a cycle start right after the highest
\* row used when the cycle started, each one right after the rows of the
\* previous one.
C6_Contiguous ==
    \A i \in 1..Len(Insertions) :
        Insertions[i].start =
            IF i = 1 THEN cycle_used + 1
            ELSE Insertions[i - 1].start + Insertions[i - 1].n

\* C6 (step part): no step changes a row of the ledger that is used.
C6_NoOverwrite ==
    \A r \in 1..Len(ledger) :
        IsUsedRow(ledger[r]) => (r <= Len(ledger') /\ ledger'[r] = ledger[r])

\* C6: the blocks of rows written in a cycle start at the highest used row
\* + 1, are contiguous and disjoint, and no used row is ever overwritten.
C6_Blocks == [](C6_Contiguous) /\ [][C6_NoOverwrite]_vars

\* C6 witness: in a cycle that started on a ledger ending with the row of a
\* second child, two registrations with children have been inserted.
C6_Witness ==
    /\ Len(Insertions) = 2
    /\ Insertions[1].n >= 1 /\ Insertions[2].n >= 1
    /\ cycle_used >= 1
    /\ ledger[cycle_used].a = 0

\* C7: every remote failure is caught by the loop, which sleeps before it
\* restarts the cycle (it never ends the process).
C7_FailureCaught == [][failures' > failures => pc' = "sleep_failed"]_vars

\* C8: once an interrupt has been delivered, no cycle is started.
C8_NoIngestAfterInterrupt == [][interrupts > 0 => cycle' = cycle]_vars

\* C9: when an interrupt was acted on, every registration that the cycle
\* had notified had also been inserted (the processing of the current
\* registration is never cut in the middle).
C9_InterruptNotInFlight ==
    abort.kind = "interrupt" =>
        \A i \in 1..Len(abort.log) :
            abort.log[i].op = "mail" => abort.log[i].row \in FullyProcessed(abort.log)

\* C10 (as claimed): without the loop flag, the loop runs one cycle, never
\* sleeps and never starts a second cycle.
C10_OneCycle ==
    ~arguments.loop => (cycle <= 1 /\ pc \notin {"sleep", "sleep_failed"})

\* C10 (amended): without the loop flag, the loop stops at the end of the
\* first cycle that runs to completion: it never sleeps after a completed
\* cycle, and each cycle after the first one follows a cycle cut short by a
\* caught remote failure or by an interrupt.
C10_StopsAfterCompletedCycle ==
    ~arguments.loop => (pc # "sleep" /\ cycle <= 1 + failures + interrupts)

\* C10 witness: without the loop flag, the loop has stopped after a cycle
\* that processed registrations.
C10_Witness ==
    ~arguments.loop /\ pc = "done" /\ cycle = 1 /\ cycle_log # <<>>

\* A fatal local error is in the run: both or neither of the CSV file and of
\* the input Google Sheets ID, no locale or a malformed locale with a CSV
\* file, or a row of the source that cannot be mapped.
FatalLocalError ==
    arguments.input \in {"both", "neither"} \/ LoadError # "none"

\* C11: with a fatal local error the loop never gets past the loading of
\* the registrations: the first load ends the process, in continuous mode
\* too; the error is never followed by the sleep of the except clause and
\* another cycle.
C11_FatalErrorEndsProcess ==
    FatalLocalError =>
        /\ pc \in {"start", "ingest", "sleep_failed", "crashed"}
        /\ cycle <= 1
        /\ (cycle = 1 => pc = "crashed")

\* C11 witness: in continuous mode, a row that cannot be mapped has ended
\* the process at the first load.
C11_Witness ==
    /\ DoesLoop(arguments)
    /\ LoadError = "ValueError"
    /\ pc = "crashed"
    /\ cycle = 1

\* C12: when the master list document has more than one sheet, the cycle
\* fails before any range of the master list is read, before any row is
\* inserted and before any e-mail is sent.
C12_TooManySheetsFailsFirst ==
    ledger_sheets > 1 =>
        /\ ~ledger_read
        /\ cycle_log = <<>>
        /\ \A r \in 1..Len(source) : notified[r] = 0 /\ inserted[r] = 0
        /\ ledger \in {<<>>, <<HeaderRow, HeaderRow>>}
        /\ pc \in {"start", "ingest", "fetch", "sleep_failed", "crashed"}

\* C12 witness: a cycle that loaded registrations has failed on the number of
\* sheets of the master list.
C12_Witness ==
    /\ ledger_sheets > 1
    /\ arguments.input = "sheet"
    /\ LoadError = "none"
    /\ source # <<>>
    /\ failures = 0
    /\ cycle = 1
    /\ pc = "crashed"

\* ------------------------------------------- functions checked on their own
\* The variables of the main loop, which no function below reads or writes.
run_vars == <<arguments, source, ledger, pc, registrations,
              processed_registration_ids, new_registrations, row_count, k,
              step, cycle, failures, interrupts, notified, inserted,
              cycle_log, cycle_used, abort, ledger_sheets, ledger_read,
              registration_ids_cache>>

\* The main loop is not started.
NotRunning ==
    /\ arguments = [loop |-> FALSE, input |-> "neither", locale |-> "none"]
    /\ source = <<>>
    /\ ledger = <<>>
    /\ ledger_sheets = 1
    /\ ledger_read = FALSE
    /\ registration_ids_cache = {}
    /\ pc = "start"
    /\ registrations = <<>>
    /\ processed_registration_ids = {}
    /\ new_registrations = <<>>
    /\ row_count = 0
    /\ k = 0
    /\ step = 1
    /\ cycle = 0
    /\ failures = 0
    /\ interrupts = 0
    /\ notified = <<>>
    /\ inserted = <<>>
    /\ cycle_log = <<>>
    /\ cycle_used = 0
    /\ abort = NoAbort

\* ------------------------------------------------------- registration id
\* A string is the sequence of the code points of its characters.
\* E-mail addresses of parents, as Parent.email_address returns them.
EMAIL_AN == <<97, 110, 64, 101, 46, 118, 110>>   \* 'an@e.vn'
EMAIL_BO == <<98, 111, 64, 101, 46, 118, 110>>   \* 'bo@e.vn'
EMAIL_CY == <<99, 121, 64, 101, 46, 118, 110>>  \* 'cy@e.vn'

EmailAddresses == {EMAIL_AN, EMAIL_BO, EMAIL_CY}

\* The delimiter ', ' of the e-mail addresses.
DELIMITER == <<44, 32>>

\* Number of parents a family can register (length of PARENTS_FIELDS).
PARENTS_FIELDS_COUNT == 2

\* Number of digits of a registration id.
REGISTRATION_ID_DEFAULT_DIGIT_NUMBER == 9

\* Number of objects Registration built in a process, at most.
MaxRegistrations == 2

Locales == {"eng", "fra", "kor", "vie"}

ENGLISH_LOCALE == "eng"

\* Python's order of two strings: a < b.
RECURSIVE StrLess(_, _)
StrLess(a, b) ==
    IF a = <<>> THEN b # <<>>
    ELSE IF b = <<>> THEN FALSE
    ELSE IF a[1] # b[1] THEN a[1] < b[1]
    ELSE StrLess(Tail(a), Tail(b))

\* The list with one more string, put before the first greater string.
RECURSIVE InsertSorted(_, _)
InsertSorted(s, list) ==
    IF list = <<>> THEN <<s>>
    ELSE IF StrLess(s, Head(list)) THEN <<s>> \o list
    ELSE <<Head(list)>> \o InsertSorted(s, Tail(list))

\* Python's sorted() of a list of strings.
RECURSIVE sorted(_)
sorted(list) ==
    IF list = <<>> THEN <<>>
    ELSE InsertSorted(list[Len(list)], sorted(SubSeq(list, 1, Len(list) - 1)))

\* Python's separator.join(list).
RECURSIVE join(_, _)
join(separator, list) ==
    IF list = <<>> THEN <<>>
    ELSE IF Len(list) = 1 THEN list[1]
    ELSE list[1] \o separator \o join(separator, Tail(list))

\* hashlib.md5(data).hexdigest() as the sequence of its 32 hexadecimal
\* digits, for the strings made of one or two of the addresses above.
md5(data) ==
    \* md5 of 'an@e.vn' is 971e5f932a6e477ea1f919c9fa0aec51
    CASE data = <<97, 110, 64, 101, 46, 118, 110>>
         -> <<9, 7, 1, 14, 5, 15, 9, 3, 2, 10, 6, 14, 4, 7, 7, 14, 10, 1, 15,
            9, 1, 9, 12, 9, 15, 10, 0, 10, 14, 12, 5, 1>>
    \* md5 of 'bo@e.vn' is 9211958f1e4129e671dcfb15cf2edbb8
      [] data = <<98, 111, 64, 101, 46, 118, 110>>
         -> <<9, 2, 1, 1, 9, 5, 8, 15, 1, 14, 4, 1, 2, 9, 14, 6, 7, 1, 13, 12,
            15, 11, 1, 5, 12, 15, 2, 14, 13, 11, 11, 8>>
    \* md5 of 'cy@e.vn' is 8214300073f276341807c0aef41d13f6
      [] data = <<99, 121, 64, 101, 46, 118, 110>>
         -> <<8, 2, 1, 4, 3, 0, 0, 0, 7, 3, 15, 2, 7, 6, 3, 4, 1, 8, 0, 7, 12,
            0, 10, 14, 15, 4, 1, 13, 1, 3, 15, 6>>
    \* md5 of 'an@e.vn, an@e.vn' is 84170ced4e40823deb74ca364562b58f
      [] data = <<97, 110, 64, 101, 46, 118, 110, 44, 32, 97, 110, 64, 101,
            46, 118, 110>>
         -> <<8, 4, 1, 7, 0, 12, 14, 13, 4, 14, 4, 0, 8, 2, 3, 13, 14, 11, 7,
            4, 12, 10, 3, 6, 4, 5, 6, 2, 11, 5, 8, 15>>
    \* md5 of 'an@e.vn, bo@e.vn' is daf1d267db7963139a29b06612e806a4
      [] data = <<97, 110, 64, 101, 46, 118, 110, 44, 32, 98, 111, 64, 101,
            46, 118, 110>>
         -> <<13, 10, 15, 1, 13, 2, 6, 7, 13, 11, 7, 9, 6, 3, 1, 3, 9, 10, 2,
            9, 11, 0, 6, 6, 1, 2, 14, 8, 0, 6, 10, 4>>
    \* md5 of 'an@e.vn, cy@e.vn' is 799c320f90c6d4b8b29fbb620f75522c
      [] data = <<97, 110, 64, 101, 46, 118, 110, 44, 32, 99, 121, 64, 101,
            46, 118, 110>>
         -> <<7, 9, 9, 12, 3, 2, 0, 15, 9, 0, 12, 6, 13, 4, 11, 8, 11, 2, 9,
            15, 11, 11, 6, 2, 0, 15, 7, 5, 5, 2, 2, 12>>
    \* md5 of 'bo@e.vn, an@e.vn' is bdad823da34bf15539bf904aa0c256ea
      [] data = <<98, 111, 64, 101, 46, 118, 110, 44, 32, 97, 110, 64, 101,
            46, 118, 110>>
         -> <<11, 13, 10, 13, 8, 2, 3, 13, 10, 3, 4, 11, 15, 1, 5, 5, 3, 9,
            11, 15, 9, 0, 4, 10, 10, 0, 12, 2, 5, 6, 14, 10>>
    \* md5 of 'bo@e.vn, bo@e.vn' is 56a124d930b344c7e10bb6e6792f39ee
      [] data = <<98, 111, 64, 101, 46, 118, 110, 44, 32, 98, 111, 64, 101,
            46, 118, 110>>
         -> <<5, 6, 10, 1, 2, 4, 13, 9, 3, 0, 11, 3, 4, 4, 12, 7, 14, 1, 0,
            11, 11, 6, 14, 6, 7, 9, 2, 15, 3, 9, 14, 14>>
    \* md5 of 'bo@e.vn, cy@e.vn' is db3a3327336b85475c1bc721f90c1a70
      [] data = <<98, 111, 64, 101, 46, 118, 110, 44, 32, 99, 121, 64, 101,
            46, 118, 110>>
         -> <<13, 11, 3, 10, 3, 3, 2, 7, 3, 3, 6, 11, 8, 5, 4, 7, 5, 12, 1,
            11, 12, 7, 2, 1, 15, 9, 0, 12, 1, 10, 7, 0>>
    \* md5 of 'cy@e.vn, an@e.vn' is 44f00d2ff084ac604e979433dff41c7d
      [] data = <<99, 121, 64, 101, 46, 118, 110, 44, 32, 97, 110, 64, 101,
            46, 118, 110>>
         -> <<4, 4, 15, 0, 0, 13, 2, 15, 15, 0, 8, 4, 10, 12, 6, 0, 4, 14, 9,
            7, 9, 4, 3, 3, 13, 15, 15, 4, 1, 12, 7, 13>>
    \* md5 of 'cy@e.vn, bo@e.vn' is 6eaf5e8f88ff71ba3694e84b0f84f461
      [] data = <<99, 121, 64, 101, 46, 118, 110, 44, 32, 98, 111, 64, 101,
            46, 118, 110>>
         -> <<6, 14, 10, 15, 5, 14, 8, 15, 8, 8, 15, 15, 7, 1, 11, 10, 3, 6,
            9, 4, 14, 8, 4, 11, 0, 15, 8, 4, 15, 4, 6, 1>>
    \* md5 of 'cy@e.vn, cy@e.vn' is 769ac919c03dbc204b6311361a8ef448
      [] data = <<99, 121, 64, 101, 46, 118, 110, 44, 32, 99, 121, 64, 101,
            46, 118, 110>>
         -> <<7, 6, 9, 10, 12, 9, 1, 9, 12, 0, 3, 13, 11, 12, 2, 0, 4, 11, 6,
            3, 1, 1, 3, 6, 1, 10, 8, 14, 15, 4, 4, 8>>

\* int(digits[1..i], 16) % m for a modulus m that 16 divides, as 10^9:
\* 16 * n and 16 * (n % (m / 16)) are equal modulo m, and the second one
\* is below m, so that no product exceeds 32 bits.
RECURSIVE IntBase16Mod(_, _, _)
IntBase16Mod(digits, i, m) ==
    IF i = 0 THEN 0
    ELSE (16 * (IntBase16Mod(digits, i - 1, m) % (m \div 16)) + digits[i]) % m

\* int(checksum, 16) % (10 ** digit_number).
IdOfChecksum(checksum, digit_number) ==
    IntBase16Mod(checksum, Len(checksum), 10 ^ digit_number)

\* The identification computed with the addresses in the order of the list.
generate_registration_id_unsorted(parents) ==
    IdOfChecksum(md5(join(DELIMITER, parents)),
                 REGISTRATION_ID_DEFAULT_DIGIT_NUMBER)

\* Registration.__generate_registration_id: parents is the list of the
\* e-mail addresses of the objects Parent.
generate_registration_id(parents) ==
    IdOfChecksum(md5(join(DELIMITER, sorted(parents))),
                 REGISTRATION_ID_DEFAULT_DIGIT_NUMBER)

\* The lists of parents Registration.from_row can build: the primary
\* parent, then the secondary parent if any.
ParentLists ==
    UNION {[1..n -> EmailAddresses] : n \in 1..PARENTS_FIELDS_COUNT}

\* No object Registration built yet, empty cache of the class.
IdInit ==
    /\ NotRunning
    /\ fn = [op |-> "Registration", objects |-> <<>>,
             registration_ids_cache |-> {}]

\* Registration.__init__: builds one more object of the class.
NewRegistration ==
    /\ Len(fn.objects) < MaxRegistrations
    /\ \E parents \in ParentLists, locale \in Locales \cup {"none"} :
           LET registration_id == generate_registration_id(parents)
           IN  fn' = [fn EXCEPT
                   !.objects = Append(@,
                       [registration_id |-> registration_id,
                        parents |-> parents,
                        locale |-> IF locale = "none" THEN ENGLISH_LOCALE
                                   ELSE locale]),
                   !.registration_ids_cache = @ \cup {registration_id}]
    /\ UNCHANGED run_vars

IdNext == NewRegistration

IdSpec == IdInit /\ [][IdNext]_vars

\* The number of times an address is in a list.
Occurrences(e, list) == Cardinality({i \in 1..Len(list) : list[i] = e})

\* Two lists hold the same addresses, in any order.
SameAddressesAnyOrder(p, q) ==
    \A e \in EmailAddresses : Occurrences(e, p) = Occurrences(e, q)

\* The set of the addresses of a list.
AddressSet(list) == {list[i] : i \in 1..Len(list)}

\* C13: two registrations whose parents have the same e-mail addresses, in
\* whatever order, have the same id, whichever the locale of their forms and
\* whenever they are built in the process.
C13_OrderIndependent ==
    \A i, j \in 1..Len(fn.objects) :
        SameAddressesAnyOrder(fn.objects[i].parents, fn.objects[j].parents)
            => fn.objects[i].registration_id = fn.objects[j].registration_id

\* C13 witness: two registrations of two forms of different locales, the
\* two parents in opposite orders.
C13_Witness ==
    /\ Len(fn.objects) = 2
    /\ Len(fn.objects[1].parents) = 2
    /\ fn.objects[1].parents[1] # fn.objects[1].parents[2]
    /\ fn.objects[2].parents = <<fn.objects[1].parents[2],
                                 fn.objects[1].parents[1]>>
    /\ fn.objects[1].locale # fn.objects[2].locale
    /\ fn.objects[1].registration_id = fn.objects[2].registration_id

\* C14: the id depends on the set of e-mail addresses only: two parents with
\* the same address give the id of one parent with this address.
C14_SetOfAddresses ==
    \A i, j \in 1..Len(fn.objects) :
        AddressSet(fn.objects[i].parents) = AddressSet(fn.objects[j].parents)
            => fn.objects[i].registration_id = fn.objects[j].registration_id

\* ------------------------------------------- rendering of a registration id
\* The characters '-' and '0'.
DASH == <<45>>

ZERO == <<48>>

\* Number of digits of a segment of a rendered id.
SEGMENT_WIDTH == 3

\* Python's str() of a natural number.
RECURSIVE str(_)
str(n) ==
    IF n < 10 THEN <<48 + n>>
    ELSE str(n \div 10) \o <<48 + (n % 10)>>

\* Python's s.zfill(width) of a string of digits.
RECURSIVE zfill(_, _)
zfill(s, width) ==
    IF Len(s) >= width THEN s ELSE zfill(ZERO \o s, width)

\* Python's reversed() of a list.
RECURSIVE reversed(_)
reversed(list) ==
    IF list = <<>> THEN <<>>
    ELSE <<list[Len(list)]>> \o reversed(SubSeq(list, 1, Len(list) - 1))

\* The list segments when the while loop of prettify_registration_id ends.
RECURSIVE Segments(_, _)
Segments(id_, segments) ==
    IF id_ > 0
    THEN Segments(id_ \div (10 ^ SEGMENT_WIDTH),
                  Append(segments,
                         zfill(str(id_ % (10 ^ SEGMENT_WIDTH)),
                               SEGMENT_WIDTH)))
    ELSE segments

prettify_registration_id(id_) == join(DASH, reversed(Segments(id_, <<>>)))

\* Values of a block of three digits of the ids given to the function.
BlockValues == {0, 7, 42, 456, 999}

\* Ids given to the function: all are in 0..(10^9 - 1).
PrettifyIds ==
    {a * 1000000 + b * 1000 + c : a, b, c \in BlockValues} \cup {123456789}

PrettifyInit ==
    /\ NotRunning
    /\ \E id_ \in PrettifyIds :
           fn = [op |-> "prettify_registration_id", id_ |-> id_,
                 returned |-> FALSE, result |-> <<>>]

PrettifyRegistrationId ==
    /\ ~fn.returned
    /\ fn' = [fn EXCEPT !.returned = TRUE,
                        !.result = prettify_registration_id(fn.id_)]
    /\ UNCHANGED run_vars

PrettifyNext == PrettifyRegistrationId

PrettifySpec == PrettifyInit /\ [][PrettifyNext]_vars

\* The digits of a number in blocks of three from the right, a dash between
\* two blocks, the most significant block first and as long as it is.
RECURSIVE BlocksOfThree(_)
BlocksOfThree(digits) ==
    IF Len(digits) <= 3 THEN digits
    ELSE BlocksOfThree(SubSeq(digits, 1, Len(digits) - 3))
             \o DASH \o SubSeq(digits, Len(digits) - 2, Len(digits))

\* C15: the rendering of an id is its decimal digits in blocks of three
\* from the right, separated by dashes, most significant block first,
\* without zero before the most significant block: 42 renders as 42.
C15_Rendering ==
    fn.returned => fn.result = BlocksOfThree(str(fn.id_))

\* -------------------------------------------------- placeholder expansion
\* The character ':'.
COLON == 58

\* The classes [a-z] and [a-z0-9_.] of REGEX_PLACEHOLDER_NAME, which
\* ignores the case.
IsLetter(c) == c \in (65..90) \cup (97..122)

IsNameCharacter(c) == IsLetter(c) \/ c \in (48..57) \cup {95, 46}

\* The least number of a non-empty set of numbers.
Min(S) == CHOOSE i \in S : \A j \in S : i <= j

\* The index of the last character matched by [a-z0-9_.]* from index i on.
NameEnd(content, i) ==
    CHOOSE j \in i..Len(content) :
        /\ \A c \in i..j : IsNameCharacter(content[c])
        /\ j = Len(content) \/ ~IsNameCharacter(content[j + 1])

\* The index of the last character of the match of REGEX_PLACEHOLDER_NAME
\* that starts at index i, 0 when there is none.
MatchEnd(content, i) ==
    IF /\ i + 4 <= Len(content)
       /\ content[i] = COLON
       /\ content[i + 1] = COLON
       /\ IsLetter(content[i + 2])
    THEN LET end == NameEnd(content, i + 2)
         IN  IF /\ end + 2 <= Len(content)
                /\ content[end + 1] = COLON
                /\ content[end + 2] = COLON
             THEN end + 2
             ELSE 0
    ELSE 0

\* REGEX_PLACEHOLDER_NAME.finditer(content) from index pos on: the matches
\* from left to right, which do not overlap.
RECURSIVE finditer(_, _)
finditer(content, pos) ==
    LET starts == {i \in pos..Len(content) : MatchEnd(content, i) > 0}
    IN  IF starts = {} THEN <<>>
        ELSE LET start == Min(starts)
                 end == MatchEnd(content, start)
             IN  <<[start |-> start, end |-> end]>>
                     \o finditer(content, end + 1)

\* The set of pairs (match.group(0), match.group(1)) of the content.
used_placeholders(content) ==
    LET matches == finditer(content, 1)
    IN  {[expression |-> SubSeq(content, matches[i].start, matches[i].end),
          name |-> SubSeq(content, matches[i].start + 2,
                          matches[i].end - 2)] : i \in 1..Len(matches)}

\* old is at index i of s.
OccursAt(s, old, i) ==
    /\ i + Len(old) - 1 <= Len(s)
    /\ SubSeq(s, i, i + Len(old) - 1) = old

\* Python's s.replace(old, new) for a non-empty string old.
RECURSIVE replace(_, _, _)
replace(s, old, new) ==
    LET found == {i \in 1..Len(s) : OccursAt(s, old, i)}
    IN  IF found = {} THEN s
        ELSE LET i == Min(found)
             IN  SubSeq(s, 1, i - 1) \o new
                     \o replace(SubSeq(s, i + Len(old), Len(s)), old, new)

\* The orders in which a for loop can iterate over a set.
IterationOrders(S) ==
    {order \in [1..Cardinality(S) -> S] :
        \A i, j \in 1..Cardinality(S) : order[i] = order[j] => i = j}

\* The content after the for loop that replaces the placeholders one after
\* the other, in the order of the iteration over used_placeholders.
RECURSIVE ReplaceInOrder(_, _, _)
ReplaceInOrder(content, order, placeholders) ==
    IF order = <<>> THEN content
    ELSE ReplaceInOrder(
             replace(content, order[1].expression,
                     placeholders[order[1].name]),
             Tail(order), placeholders)

\* The second assertion fails whether unused placeholders are ignored or not.
UnusedPlaceholdersAccepted_strict(unused_names, ignore_unused) ==
    unused_names = {}

\* The second assertion of expand_placeholders_value holds.
UnusedPlaceholdersAccepted(unused_names, ignore_unused) ==
    unused_names = {} \/ ignore_unused

\* expand_placeholders_value, when the for loop iterates in the given
\* order: the exception raised if any, the content returned otherwise.
expand_placeholders_value(content, placeholders, ignore_unused, order) ==
    LET used_placeholder_names ==
            {p.name : p \in used_placeholders(content)}
        undefined_placeholder_names ==
            used_placeholder_names \ DOMAIN placeholders
        unused_placeholder_names ==
            DOMAIN placeholders \ used_placeholder_names
    IN  IF /\ used_placeholders(content) # {}
           /\ undefined_placeholder_names # {}
        THEN [outcome |-> "AssertionError", result |-> <<>>]
        ELSE IF /\ DOMAIN placeholders # {}
                /\ ~UnusedPlaceholdersAccepted(unused_placeholder_names,
                                               ignore_unused)
        THEN [outcome |-> "AssertionError", result |-> <<>>]
        ELSE [outcome |-> "returned",
              result |-> ReplaceInOrder(content, order, placeholders)]

\* Pieces of the contents given to the function: '::a::', '::b::', 'b::'
\* and ' '.
Pieces == {<<58, 58, 97, 58, 58>>, <<58, 58, 98, 58, 58>>, <<98, 58, 58>>,
           <<32>>}

\* Number of pieces of a content, at most.
MaxPieces == 4

\* Number of calls in a row, the content of a call being the result of the
\* previous one, at most.
MaxExpandCalls == 2

RECURSIVE Concatenation(_)
Concatenation(pieces) ==
    IF pieces = <<>> THEN <<>>
    ELSE Head(pieces) \o Concatenation(Tail(pieces))

Contents ==
    {Concatenation(pieces) :
        pieces \in UNION {[1..n -> Pieces] : n \in 0..MaxPieces}}

\* Names of the placeholders of a dictionary: 'a' and 'b'.
PlaceholderNames == {<<97>>, <<98>>}

\* Values of the placeholders of a dictionary: 'x' and '::b::'.
PlaceholderValues == {<<120>>, <<58, 58, 98, 58, 58>>}

PlaceholderDictionaries ==
    UNION {[names -> PlaceholderValues] : names \in SUBSET PlaceholderNames}

ExpandInit ==
    /\ NotRunning
    /\ \E content \in Contents, placeholders \in PlaceholderDictionaries,
          ignore_unused_placeholders \in BOOLEAN :
           fn = [op |-> "expand_placeholders_value",
                 content |-> content,
                 placeholders |-> placeholders,
                 ignore_unused_placeholders |-> ignore_unused_placeholders,
                 calls |-> <<>>]

\* One call of expand_placeholders_value: on the content first, then on the
\* content that the previous call returned.
ExpandPlaceholdersValue ==
    /\ Len(fn.calls) < MaxExpandCalls
    /\ fn.calls # <<>> => fn.calls[Len(fn.calls)].outcome = "returned"
    /\ LET content == IF fn.calls = <<>> THEN fn.content
                      ELSE fn.calls[Len(fn.calls)].result
       IN  \E order \in IterationOrders(used_placeholders(content)) :
               LET call == expand_placeholders_value(
                               content, fn.placeholders,
                               fn.ignore_unused_placeholders, order)
               IN  fn' = [fn EXCEPT !.calls = Append(@,
                              [content |-> content, order |-> order,
                               outcome |-> call.outcome,
                               result |-> call.result])]
    /\ UNCHANGED run_vars

ExpandNext == ExpandPlaceholdersValue

ExpandSpec == ExpandInit /\ [][ExpandNext]_vars

\* The names of the placeholder tokens of a content.
ReferencedNames(content) == {p.name : p \in used_placeholders(content)}

\* The content where every placeholder token found by the scan is replaced
\* with its value, and nothing else is changed.
RECURSIVE SubstituteMatches(_, _, _, _)
SubstituteMatches(content, matches, pos, placeholders) ==
    IF matches = <<>> THEN SubSeq(content, pos, Len(content))
    ELSE SubSeq(content, pos, matches[1].start - 1)
             \o placeholders[SubSeq(content, matches[1].start + 2,
                                    matches[1].end - 2)]
             \o SubstituteMatches(content, Tail(matches),
                                  matches[1].end + 1, placeholders)

SubstituteTokens(content, placeholders) ==
    SubstituteMatches(content, finditer(content, 1), 1, placeholders)

\* The function raises exactly when a referenced name has no value, or when
\* unused values are not ignored and a value is not referenced.
RaisesExactly(call) ==
    call.outcome = "AssertionError" <=>
        \/ ReferencedNames(call.content) \ DOMAIN fn.placeholders # {}
        \/ /\ ~fn.ignore_unused_placeholders
           /\ DOMAIN fn.placeholders \ ReferencedNames(call.content) # {}

\* C16: expand raises exactly when a token of the content has no value, or
\* when ignore_unused is false and a value is never referenced; when it
\* succeeds every referenced token is replaced with its value.
C16_Contract ==
    \A c \in 1..Len(fn.calls) :
        /\ RaisesExactly(fn.calls[c])
        /\ fn.calls[c].outcome = "returned"
               => fn.calls[c].result =
                      SubstituteTokens(fn.calls[c].content, fn.placeholders)

\* The call after a call that returned a content without placeholder has
\* returned the same content.
SecondCallReturnsSame ==
    /\ fn.calls[2].outcome = "returned"
    /\ fn.calls[2].result = fn.calls[1].result

\* C17 as stated: when expand(c, v) succeeds and its result holds no
\* placeholder, expand(expand(c, v), v) succeeds and gives the same result.
C17_Idempotent ==
    /\ Len(fn.calls) >= 2
    /\ used_placeholders(fn.calls[1].result) = {}
    => SecondCallReturnsSame

\* C17 amended: when expand(c, v) succeeds and its result holds no
\* placeholder, the second call succeeds and gives the same result if
\* unused placeholders are ignored or v is empty, and raises otherwise.
C17_IdempotentWhenUnusedIgnored ==
    /\ Len(fn.calls) >= 2
    /\ used_placeholders(fn.calls[1].result) = {}
    => IF fn.ignore_unused_placeholders \/ DOMAIN fn.placeholders = {}
       THEN SecondCallReturnsSame
       ELSE fn.calls[2].outcome = "AssertionError"

\* C17 witness: placeholders were replaced by the first call, none is left,
\* and the second call returned the same content.
C17_Witness ==
    /\ Len(fn.calls) = 2
    /\ fn.ignore_unused_placeholders
    /\ DOMAIN fn.placeholders # {}
    /\ used_placeholders(fn.calls[1].content) # {}
    /\ used_placeholders(fn.calls[1].result) = {}
    /\ SecondCallReturnsSame

\* C18: the content returned is the same for every order of replacement of
\* the tokens, and a token that only a value brings in the content is still
\* in the content returned.
C18_OrderIndependent ==
    \A c \in 1..Len(fn.calls) :
        fn.calls[c].outcome = "returned" =>
            /\ \A order \in IterationOrders(
                                used_placeholders(fn.calls[c].content)) :
                   ReplaceInOrder(fn.calls[c].content, order,
                                  fn.placeholders) = fn.calls[c].result
            /\ \A p \in used_placeholders(fn.calls[c].content) :
                   \A q \in used_placeholders(fn.placeholders[p.name]) :
                       q \notin used_placeholders(fn.calls[c].content)
                           => q \in used_placeholders(fn.calls[c].result)

\* ------------------------------------------------------- mapping of a row
\* Number of children a family can register (length of CHILDREN_FIELDS).
CHILDREN_FIELDS_COUNT == 4

\* The characters that str.strip() removes: tab, line feed, vertical tab,
\* form feed, carriage return, space.
Whitespace == {9, 10, 11, 12, 13, 32}

RECURSIVE lstrip(_)
lstrip(s) ==
    IF s # <<>> /\ Head(s) \in Whitespace THEN lstrip(Tail(s)) ELSE s

RECURSIVE rstrip(_)
rstrip(s) ==
    IF s # <<>> /\ s[Len(s)] \in Whitespace
    THEN rstrip(SubSeq(s, 1, Len(s) - 1))
    ELSE s

\* Python's s.strip().
strip(s) == rstrip(lstrip(s))

\* Values of the first field of a group of fields: '', ' ', 'An' and ' An'.
FirstFields == {<<>>, <<32>>, <<65, 110>>, <<32, 65, 110>>}

\* A group of fields of a row: its first field, and whether the constructor
\* of Child or Parent accepts its fields (date of birth, e-mail address,
\* phone number).
Groups == [first_field : FirstFields, valid : BOOLEAN]

\* The rows given to Registration.from_row: the loaders leave the empty
\* rows out, and from_row pads a short row with empty strings.
Rows ==
    [registration_time_valid : BOOLEAN,
     children : [1..CHILDREN_FIELDS_COUNT -> Groups],
     parents : [1..PARENTS_FIELDS_COUNT -> Groups]]

PRIMARY_PARENT_ERROR == "The primary parent has not been defined"

\* The first field is compared with the empty string without strip().
parse_child_unstripped(group) ==
    IF Len(group.first_field) = 0 THEN "None"
    ELSE IF group.valid THEN "Child" ELSE "invalid child field"

\* Registration.__parse_child: None, a Child, or the ValueError that the
\* constructor of Child raises.
parse_child(group) ==
    IF Len(strip(group.first_field)) = 0 THEN "None"
    ELSE IF group.valid THEN "Child" ELSE "invalid child field"

\* RegistrationForm.__parse_parent of upmd/form/aggregator.py: no parent is
\* required.
parse_parent_upmd(group, is_secondary_parent) ==
    IF Len(strip(group.first_field)) = 0 THEN "None"
    ELSE IF group.valid THEN "Parent" ELSE "invalid parent field"

\* Registration.__parse_parent: None, a Parent, or the ValueError raised.
parse_parent(group, is_secondary_parent) ==
    IF Len(strip(group.first_field)) = 0
    THEN IF is_secondary_parent THEN "None" ELSE PRIMARY_PARENT_ERROR
    ELSE IF group.valid THEN "Parent" ELSE "invalid parent field"

\* The loop over CHILDREN_FIELDS from the group i on: the list children,
\* and the error raised if any. A Child is written as the index of its group.
RECURSIVE ParseChildren(_, _, _)
ParseChildren(row, i, children) ==
    IF i > CHILDREN_FIELDS_COUNT
    THEN [error |-> "none", children |-> children]
    ELSE LET child == parse_child(row.children[i])
         IN  IF child = "None" THEN ParseChildren(row, i + 1, children)
             ELSE IF child = "Child"
             THEN ParseChildren(row, i + 1, Append(children, i))
             ELSE [error |-> child, children |-> children]

\* The loop over PARENTS_FIELDS from the group i on.
RECURSIVE ParseParents(_, _, _)
ParseParents(row, i, parents) ==
    IF i > PARENTS_FIELDS_COUNT
    THEN [error |-> "none", parents |-> parents]
    ELSE LET parent == parse_parent(row.parents[i], i > 1)
         IN  IF parent = "None" THEN ParseParents(row, i + 1, parents)
             ELSE IF parent = "Parent"
             THEN ParseParents(row, i + 1, Append(parents, i))
             ELSE [error |-> parent, parents |-> parents]

\* Registration.from_row: the Registration returned or the ValueError
\* raised, with the objects Child and Parent built until then.
from_row(row) ==
    IF ~row.registration_time_valid
    THEN [outcome |-> "ValueError", error |-> "invalid registration time",
          children |-> <<>>, parents |-> <<>>]
    ELSE LET c == ParseChildren(row, 1, <<>>)
             p == ParseParents(row, 1, <<>>)
         IN  IF c.error # "none"
             THEN [outcome |-> "ValueError", error |-> c.error,
                   children |-> c.children, parents |-> <<>>]
             ELSE IF p.error # "none"
             THEN [outcome |-> "ValueError", error |-> p.error,
                   children |-> c.children, parents |-> p.parents]
             ELSE [outcome |-> "Registration", error |-> "none",
                   children |-> c.children, parents |-> p.parents]

RowInit ==
    /\ NotRunning
    /\ \E row \in Rows :
           fn = [op |-> "from_row", row |-> row, returned |-> FALSE,
                 result |-> [outcome |-> "none", error |-> "none",
                             children |-> <<>>, parents |-> <<>>]]

FromRow ==
    /\ ~fn.returned
    /\ fn' = [fn EXCEPT !.returned = TRUE, !.result = from_row(fn.row)]
    /\ UNCHANGED run_vars

RowNext == FromRow

RowSpec == RowInit /\ [][RowNext]_vars

\* A string that is not blank: it has a character that is no white space.
NonBlank(s) == \E i \in 1..Len(s) : s[i] \notin Whitespace

\* The indexes of the groups whose first field is not blank, in the order
\* of the groups.
RECURSIVE PresentGroups(_, _)
PresentGroups(groups, i) ==
    IF i > Len(groups) THEN <<>>
    ELSE (IF NonBlank(groups[i].first_field) THEN <<i>> ELSE <<>>)
             \o PresentGroups(groups, i + 1)

\* Every group whose first field is not blank has valid fields.
PresentGroupsValid(groups) ==
    \A i \in 1..Len(groups) :
        NonBlank(groups[i].first_field) => groups[i].valid

\* C19: no Child and no Parent is built from a group whose first field is
\* blank, and the Registration of a row holds one Child per child group
\* whose first field is not blank and one Parent per such parent group, in
\* the order of the groups, whether an earlier group is blank or not.
C19_PresentGroupsMapped ==
    fn.returned =>
        /\ \A j \in 1..Len(fn.result.children) :
               NonBlank(fn.row.children[fn.result.children[j]].first_field)
        /\ \A j \in 1..Len(fn.result.parents) :
               NonBlank(fn.row.parents[fn.result.parents[j]].first_field)
        /\ fn.result.outcome = "Registration" =>
               /\ fn.result.children = PresentGroups(fn.row.children, 1)
               /\ fn.result.parents = PresentGroups(fn.row.parents, 1)

\* C19 witness: the first child group is empty, the third one is a space,
\* and the Registration holds the children of the groups 2 and 4.
C19_Witness ==
    /\ fn.returned
    /\ fn.result.outcome = "Registration"
    /\ fn.row.children[1].first_field = <<>>
    /\ fn.row.children[3].first_field = <<32>>
    /\ fn.result.children = <<2, 4>>
    /\ fn.result.parents = <<1, 2>>

\* C20: a row whose primary parent group is blank raises an error and gives
\* no Registration; a row whose secondary parent group is blank, all what
\* is present being valid, gives a Registration with the primary parent
\* alone.
C20_PrimaryParentRequired ==
    fn.returned =>
        /\ ~NonBlank(fn.row.parents[1].first_field)
               => fn.result.outcome = "ValueError"
        /\ (/\ fn.row.registration_time_valid
            /\ PresentGroupsValid(fn.row.children)
            /\ ~NonBlank(fn.row.parents[1].first_field))
               => fn.result.error = PRIMARY_PARENT_ERROR
        /\ (/\ fn.row.registration_time_valid
            /\ PresentGroupsValid(fn.row.children)
            /\ PresentGroupsValid(fn.row.parents)
            /\ NonBlank(fn.row.parents[1].first_field)
            /\ ~NonBlank(fn.row.parents[2].first_field))
               => /\ fn.result.outcome = "Registration"
                  /\ fn.result.parents = <<1>>
                  /\ fn.result.children = PresentGroups(fn.row.children, 1)

\* C20 witness: the primary parent group is blank and the secondary one is
\* not, children are present, and the row is rejected for its primary
\* parent.
C20_Witness ==
    /\ fn.returned
    /\ fn.row.parents[1].first_field = <<32>>
    /\ NonBlank(fn.row.parents[2].first_field)
    /\ fn.result.children # <<>>
    /\ fn.result.outcome = "ValueError"
    /\ fn.result.error = PRIMARY_PARENT_ERROR

\* C21: every Registration produced from a row has at least one Child: a
\* row whose four child groups are all blank gives no Registration.
C21_AtLeastOneChild ==
    (fn.returned /\ fn.result.outcome = "Registration")
        => fn.result.children # <<>>

\* --------------------------------------------------- names of the persons
\* Largest length of a name given to the functions that format names.
MaxNameLen == 3

SPACE == <<32>>

\* The characters that normalize_name replaces with a space:
\* . , \ / # ! $ % ^ & * ; : { } = - _ ` ~ ( ) < > " '
PUNCTUATION ==
    {46, 44, 92, 47, 35, 33, 36, 37, 94, 38, 42, 59, 58, 123, 125, 61, 45,
     95, 96, 126, 40, 41, 60, 62, 34, 39}

\* re.sub(r'[.,\\/#!$%^&*;:{}=\-_`~()<>"\']', ' ', name)
SubPunctuation(name) ==
    [i \in 1..Len(name) |-> IF name[i] \in PUNCTUATION THEN 32 ELSE name[i]]

\* Python's s.split(): the words of s from the position i on, `word` being
\* the word read so far.
RECURSIVE split(_, _, _)
split(s, i, word) ==
    IF i > Len(s) THEN (IF word = <<>> THEN <<>> ELSE <<word>>)
    ELSE IF s[i] \in Whitespace
    THEN (IF word = <<>> THEN <<>> ELSE <<word>>) \o split(s, i + 1, <<>>)
    ELSE split(s, i + 1, Append(word, s[i]))

\* Person.normalize_name
normalize_name(name) == join(SPACE, split(SubPunctuation(name), 1, <<>>))

\* Python's str.lower() and str.upper(), on the letters A-Z and a-z and on
\* the characters that have no case (digits, Hangul syllables).
lower(s) == [i \in 1..Len(s) |-> IF s[i] \in 65..90 THEN s[i] + 32 ELSE s[i]]
upper(s) == [i \in 1..Len(s) |-> IF s[i] \in 97..122 THEN s[i] - 32 ELSE s[i]]

\* Python's str.capitalize()
capitalize(s) ==
    IF s = <<>> THEN s ELSE upper(<<s[1]>>) \o lower(Tail(s))

\* Person.format_first_name: the locale is not read.
format_first_name(first_name, locale) ==
    LET components == split(normalize_name(first_name), 1, <<>>)
    IN  join(SPACE, [i \in 1..Len(components) |->
                        capitalize(lower(components[i]))])

\* Person.format_last_name: the locale is not read.
format_last_name(last_name, locale) == upper(normalize_name(last_name))

\* The characters of the names: a, B, space, hyphen and the Hangul
\* syllable U+AE40.
NameCharacters == {97, 66, 32, 45, 44608}

Names == UNION {[1..n -> NameCharacters] : n \in 0..MaxNameLen}

KOREAN_LOCALE == "kor"

NotFormatted == [returned |-> FALSE, result |-> <<>>]

NameInit ==
    /\ NotRunning
    /\ \E name \in Names, locale \in Locales :
           fn = [op |-> "format_name", name |-> name, locale |-> locale,
                 first_name |-> NotFormatted, last_name |-> NotFormatted]

FormatFirstName ==
    /\ ~fn.first_name.returned
    /\ fn' = [fn EXCEPT !.first_name =
                 [returned |-> TRUE,
                  result |-> format_first_name(fn.name, fn.locale)]]
    /\ UNCHANGED run_vars

FormatLastName ==
    /\ ~fn.last_name.returned
    /\ fn' = [fn EXCEPT !.last_name =
                 [returned |-> TRUE,
                  result |-> format_last_name(fn.name, fn.locale)]]
    /\ UNCHANGED run_vars

NameNext == FormatFirstName \/ FormatLastName

NameSpec == NameInit /\ [][NameNext]_vars

\* A first name whose words are capitalised: no upper-case letter but at
\* the start of a word, no lower-case letter at the start of a word.
CapitalizedWords(s) ==
    \A i \in 1..Len(s) :
        IF i = 1 \/ s[i - 1] = 32 THEN s[i] \notin 97..122
        ELSE s[i] \notin 65..90

\* C22: with the locales of Latin script the words of the first name are
\* capitalised and the last name is in upper case; with the Korean locale
\* the first name and the last name keep the case of their letters, only
\* the punctuation is removed and the white space collapsed.
C22_CasingByLocale ==
    /\ fn.first_name.returned =>
           IF fn.locale = KOREAN_LOCALE
           THEN fn.first_name.result = normalize_name(fn.name)
           ELSE /\ CapitalizedWords(fn.first_name.result)
                /\ lower(fn.first_name.result) = lower(normalize_name(fn.name))
    /\ fn.last_name.returned =>
           IF fn.locale = KOREAN_LOCALE
           THEN fn.last_name.result = normalize_name(fn.name)
           ELSE /\ \A i \in 1..Len(fn.last_name.result) :
                       fn.last_name.result[i] \notin 97..122
                /\ lower(fn.last_name.result) = lower(normalize_name(fn.name))

\* ------------------------------------------------- grade of the children
\* GRADE_NAMES: the names of the education grades and their levels, in the
\* order of the dictionary.
GRADE_NAMES ==
    <<[name |-> <<84, 80, 83>>, level |-> 1],                            \* TPS
      [name |-> <<80, 83>>, level |-> 2],                                \* PS
      [name |-> <<77, 83>>, level |-> 3],                                \* MS
      [name |-> <<71, 83>>, level |-> 4],                                \* GS
      [name |-> <<67, 80>>, level |-> 5],                                \* CP
      [name |-> <<67, 69, 49>>, level |-> 6],                            \* CE1
      [name |-> <<67, 69, 50>>, level |-> 7],                            \* CE2
      [name |-> <<67, 77, 49>>, level |-> 8],                            \* CM1
      [name |-> <<67, 77, 50>>, level |-> 9],                            \* CM2
      [name |-> <<83, 105, 120, 105, 232, 109, 101>>, level |-> 10],     \* Sixième
      [name |-> <<67, 105, 110, 113, 117, 105, 232, 109, 101>>, level |-> 11],
      [name |-> <<81, 117, 97, 116, 114, 105, 232, 109, 101>>, level |-> 12],
      [name |-> <<84, 114, 111, 105, 115, 105, 232, 109, 101>>, level |-> 13],
      [name |-> <<83, 101, 99, 111, 110, 100, 101>>, level |-> 14],      \* Seconde
      [name |-> <<80, 114, 101, 109, 105, 232, 114, 101>>, level |-> 15], \* Première
      [name |-> <<84, 101, 114, 109, 105, 110, 97, 108, 101>>, level |-> 16]>>

\* The value None of a grade level.
NoGradeLevel == 0

\* Python's `sub in s`.
Contains(s, sub) == \E i \in 1..(Len(s) + 1) : OccursAt(s, sub, i)

\* Child.parse_grade_level: the level of the first grade of GRADE_NAMES,
\* from the entry i on, whose name is in grade_name; the loop ends without
\* a return statement when there is none.
RECURSIVE ParseGradeLevelFrom(_, _)
ParseGradeLevelFrom(grade_name, i) ==
    IF i > Len(GRADE_NAMES) THEN NoGradeLevel
    ELSE IF Contains(grade_name, GRADE_NAMES[i].name)
    THEN GRADE_NAMES[i].level
    ELSE ParseGradeLevelFrom(grade_name, i + 1)

parse_grade_level(grade_name) == ParseGradeLevelFrom(grade_name, 1)

\* Number of pieces of a grade label, at most.
MaxGradePieces == 3

\* Pieces of the grade labels of the form: 'T', 'PS', 'CE', '1', 'Seconde'
\* and ' '.
GradePieces ==
    {<<84>>, <<80, 83>>, <<67, 69>>, <<49>>,
     <<83, 101, 99, 111, 110, 100, 101>>, <<32>>}

GradeLabels ==
    {Concatenation(pieces) :
        pieces \in UNION {[1..n -> GradePieces] : n \in 0..MaxGradePieces}}

\* The constructor of Child, for a date of birth that strptime accepts or
\* not and a grade label: the Child built, or the ValueError raised.
Child(dob_valid, grade_name) ==
    IF ~dob_valid
    THEN [outcome |-> "ValueError", grade_level |-> NoGradeLevel]
    ELSE [outcome |-> "Child", grade_level |-> parse_grade_level(grade_name)]

ChildInit ==
    /\ NotRunning
    /\ \E dob_valid \in BOOLEAN, grade_name \in GradeLabels :
           fn = [op |-> "Child", dob_valid |-> dob_valid,
                 grade_name |-> grade_name, returned |-> FALSE,
                 result |-> [outcome |-> "none", grade_level |-> NoGradeLevel]]

NewChild ==
    /\ ~fn.returned
    /\ fn' = [fn EXCEPT !.returned = TRUE,
                        !.result = Child(fn.dob_valid, fn.grade_name)]
    /\ UNCHANGED run_vars

ChildNext == NewChild

ChildSpec == ChildInit /\ [][ChildNext]_vars

\* No name of GRADE_NAMES is in the label.
NoGradeNameIn(grade_name) ==
    \A i \in 1..Len(GRADE_NAMES) : ~Contains(grade_name, GRADE_NAMES[i].name)

\* C23: a grade label that contains no name of the grade table is a lookup
\* failure: the constructor of Child raises an error, it never builds a
\* Child without grade level.
C23_UnknownGradeRaises ==
    (fn.returned /\ NoGradeNameIn(fn.grade_name))
        => fn.result.outcome = "ValueError"

\* The level of a label that contains a name of the grade table is the
\* level of the first such entry in the order of the table.
C23_FirstMatchWins ==
    (fn.returned /\ fn.result.outcome = "Child"
                 /\ ~NoGradeNameIn(fn.grade_name))
        => \E i \in 1..Len(GRADE_NAMES) :
              /\ Contains(fn.grade_name, GRADE_NAMES[i].name)
              /\ \A j \in 1..(i - 1) :
                     ~Contains(fn.grade_name, GRADE_NAMES[j].name)
              /\ fn.result.grade_level = GRADE_NAMES[i].level

\* ---------------------------------------------- membership of the family
\* SUBSCRIPTION_AGREEMENTS: the group of thousands of PAYMENT_AMOUNT_UPMD
\* ('100,000') and of PAYMENT_AMOUNT_NON_UPMD ('200,000'), in the order of
\* the dictionary.
SUBSCRIPTION_AGREEMENTS ==
    <<[keyword |-> <<49, 48, 48>>, agreed |-> TRUE],
      [keyword |-> <<50, 48, 48>>, agreed |-> FALSE]>>

\* The loop of Registration.__parse_registration_type from the entry i on:
\* `if keyword in registration_type: return agreed`, and False when the
\* loop ends.
RECURSIVE AgreementFrom(_, _)
AgreementFrom(registration_type, i) ==
    IF i > Len(SUBSCRIPTION_AGREEMENTS) THEN FALSE
    ELSE IF Contains(registration_type, SUBSCRIPTION_AGREEMENTS[i].keyword)
    THEN SUBSCRIPTION_AGREEMENTS[i].agreed
    ELSE AgreementFrom(registration_type, i + 1)

\* Registration.__parse_registration_type, for the cell of the row that
\* holds the fee.
parse_registration_type(cell) == AgreementFrom(strip(cell), 1)

\* Number of pieces of a fee cell, at most.
MaxFeePieces == 3

\* Pieces of the fee cells: '100', '200', '000', ',', ' ' and 'x'.
FeePieces ==
    {<<49, 48, 48>>, <<50, 48, 48>>, <<48, 48, 48>>, <<44>>, <<32>>, <<120>>}

FeeCells ==
    {Concatenation(pieces) :
        pieces \in UNION {[1..n -> FeePieces] : n \in 0..MaxFeePieces}}

FeeInit ==
    /\ NotRunning
    /\ \E cell \in FeeCells :
           fn = [op |-> "parse_registration_type", cell |-> cell,
                 returned |-> FALSE, result |-> FALSE]

ParseRegistrationType ==
    /\ ~fn.returned
    /\ fn' = [fn EXCEPT !.returned = TRUE,
                        !.result = parse_registration_type(fn.cell)]
    /\ UNCHANGED run_vars

FeeNext == ParseRegistrationType

FeeSpec == FeeInit /\ [][FeeNext]_vars

\* The cell, its leading white space left out, starts with the digits.
StartsWith(cell, digits) == OccursAt(strip(cell), digits, 1)

\* C24: the membership flag follows the leading group of digits of the fee
\* cell: true when the cell starts with 100, false when it starts with 200
\* whatever digits come later, and false, without error, when the cell
\* holds neither 100 nor 200.
C24_LeadingGroupDecides ==
    fn.returned =>
        /\ StartsWith(fn.cell, <<49, 48, 48>>) => fn.result = TRUE
        /\ StartsWith(fn.cell, <<50, 48, 48>>) => fn.result = FALSE
        /\ (~Contains(fn.cell, <<49, 48, 48>>)
               /\ ~Contains(fn.cell, <<50, 48, 48>>)) => fn.result = FALSE

\* ------------------------------------------- mapping of the cells of a row
\* RegistrationFields without the field HAS_PARENT2.
RegistrationFields_without_HAS_PARENT2 ==
    [REGISTRATION_TIME |-> 1, CHILDREN_FIELDS |-> <<2, 7, 12, 17>>,
     PARENTS_FIELDS |-> <<21, 26>>, REGISTRATION_TYPE |-> 31, count |-> 31]

\* RegistrationFields, CHILDREN_FIELDS and PARENTS_FIELDS: the position of
\* the registration time, of the first field of each group of 4 fields of a
\* child and of each group of 5 fields of a parent, of the fee, and the
\* number of fields (HAS_CHILD2, HAS_CHILD3, HAS_CHILD4 and HAS_PARENT2 are
\* the fields 6, 11, 16 and 26).
RegistrationFields ==
    [REGISTRATION_TIME |-> 1, CHILDREN_FIELDS |-> <<2, 7, 12, 17>>,
     PARENTS_FIELDS |-> <<21, 27>>, REGISTRATION_TYPE |-> 32, count |-> 32]

\* datetime.datetime.strptime(s, '%m/%d/%Y') and, with the time,
\* strptime(s, '%m/%d/%Y %H:%M:%S') accept s (they raise ValueError
\* otherwise), for the strings that write each number with all its digits.
strptime_accepts(s, with_time) ==
    LET format == IF with_time
                  THEN <<0, 0, 47, 0, 0, 47, 0, 0, 0, 0, 32, 0, 0, 58, 0, 0, 58, 0, 0>>
                  ELSE <<0, 0, 47, 0, 0, 47, 0, 0, 0, 0>>
        number(i) == 10 * (s[i] - 48) + (s[i + 1] - 48)
    IN  /\ Len(s) = Len(format)
        /\ \A i \in 1..Len(format) :
               IF format[i] = 0 THEN s[i] \in 48..57 ELSE s[i] = format[i]
        /\ number(1) \in 1..12
        /\ number(4) \in 1..31
        /\ with_time => (number(12) < 24 /\ number(15) < 60 /\ number(18) < 62)

\* Person.format_fullname
format_fullname(last_name, first_name, locale) ==
    IF locale \in {"fra", "eng"} THEN first_name \o SPACE \o last_name
    ELSE last_name \o SPACE \o first_name

\* Parent.__format_email_address: the address stripped and in lower case,
\* ValueError when it has not the form local@domain.tld.
format_email_address(email_address) ==
    LET email_address_ == lower(strip(email_address))
        at == {i \in 1..Len(email_address_) : email_address_[i] = 64}
        dots == {i \in 1..Len(email_address_) : email_address_[i] = 46}
    IN  IF /\ Cardinality(at) = 1
           /\ \A i \in 1..Len(email_address_) : email_address_[i] \notin Whitespace
           /\ \E a \in at, d \in dots : 1 < a /\ a + 1 < d /\ d < Len(email_address_)
        THEN [outcome |-> "returned", value |-> email_address_]
        ELSE [outcome |-> "ValueError", value |-> <<>>]

\* Parent.__format_phone_number
format_phone_number(phone_number) ==
    IF phone_number = <<>> \/ \E i \in 1..Len(phone_number) : phone_number[i] \notin 48..57
    THEN [outcome |-> "ValueError", value |-> <<>>]
    ELSE IF Len(phone_number) < 9
    THEN [outcome |-> "ValueError", value |-> <<>>]
    ELSE [outcome |-> "returned",
          value |-> <<43, 56, 52, 46>> \o zfill(phone_number, 10)]

\* Registration.__parse_child and the constructor of Child, for the group
\* of fields that starts at the field `first`: None, the Child, or the
\* ValueError raised.
ParseChildCells(row, first, locale) ==
    IF Len(strip(row[first])) = 0
    THEN [outcome |-> "None", fullname |-> <<>>, grade_level |-> NoGradeLevel]
    ELSE IF ~strptime_accepts(row[first + 2], FALSE)
    THEN [outcome |-> "ValueError", fullname |-> <<>>, grade_level |-> NoGradeLevel]
    ELSE [outcome |-> "Child",
          fullname |-> format_fullname(format_last_name(row[first], locale),
                                       format_first_name(row[first + 1], locale),
                                       locale),
          grade_level |-> parse_grade_level(row[first + 3])]

\* Registration.__parse_parent and the constructor of Parent: None, the
\* Parent, or the ValueError raised. detected_locale is what detect_locale
\* returns for the name of a secondary parent.
ParseParentCells(row, first, locale, is_secondary_parent, detected_locale) ==
    LET email_address == format_email_address(row[first + 2])
        phone_number == format_phone_number(row[first + 3])
        locale_ == IF is_secondary_parent /\ detected_locale = "vie"
                   THEN "vie" ELSE locale
        failed == [outcome |-> "ValueError", fullname |-> <<>>,
                   email_address |-> <<>>, phone_number |-> <<>>,
                   locale |-> locale]
    IN  IF Len(strip(row[first])) = 0
        THEN IF is_secondary_parent THEN [failed EXCEPT !.outcome = "None"]
             ELSE failed
        ELSE IF email_address.outcome = "ValueError" THEN failed
        ELSE IF phone_number.outcome = "ValueError" THEN failed
        ELSE [outcome |-> "Parent",
              fullname |-> format_fullname(format_last_name(row[first], locale_),
                                           format_first_name(row[first + 1], locale_),
                                           locale_),
              email_address |-> email_address.value,
              phone_number |-> phone_number.value,
              locale |-> locale_]

\* Registration.from_row, on the cells of a row: the Registration built or
\* the ValueError raised.
RegistrationFromRow(cells, locale, detected_locale) ==
    LET fields == RegistrationFields
        row == [i \in 1..(IF Len(cells) < fields.count THEN fields.count ELSE Len(cells)) |->
                   IF i <= Len(cells) THEN cells[i] ELSE <<>>]
        children == [i \in 1..Len(fields.CHILDREN_FIELDS) |->
                        ParseChildCells(row, fields.CHILDREN_FIELDS[i], locale)]
        parents == [i \in 1..Len(fields.PARENTS_FIELDS) |->
                       ParseParentCells(row, fields.PARENTS_FIELDS[i], locale,
                                        i > 1, detected_locale)]
        raised == \/ ~strptime_accepts(row[fields.REGISTRATION_TIME], TRUE)
                  \/ \E i \in 1..Len(children) : children[i].outcome = "ValueError"
                  \/ \E i \in 1..Len(parents) : parents[i].outcome = "ValueError"
    IN  IF raised
        THEN [outcome |-> "ValueError", children |-> <<>>, parents |-> <<>>,
              is_ape_member |-> FALSE]
        ELSE [outcome |-> "Registration",
              children |-> SelectSeq(children, LAMBDA c : c.outcome = "Child"),
              parents |-> SelectSeq(parents, LAMBDA q : q.outcome = "Parent"),
              is_ape_member |-> parse_registration_type(row[fields.REGISTRATION_TYPE])]

\* The row of a family with one child and its primary parent: the
\* registration time, the child DOE, Jane, 09/01/2012 and its grade, 15
\* empty cells, the parent DOE, John, john@x.com, his phone number and
\* 1 Rue A, the cells `trailing` and the fee.
ScenarioRow(time, grade, phone, trailing, fee) ==
    <<time, <<68, 79, 69>>, <<74, 97, 110, 101>>, <<48, 57, 47, 48, 49, 47, 50, 48, 49, 50>>, grade>>
        \o [i \in 1..15 |-> <<>>]
        \o <<<<68, 79, 69>>, <<74, 111, 104, 110>>, <<106, 111, 104, 110, 64, 120, 46, 99, 111, 109>>, phone, <<49, 32, 82, 117, 101, 32, 65>>>>
        \o trailing \o <<fee>>

\* The rows given to from_row: the time '07/01/2020 10:00:00' or
\* '07/01/2020'; the grade 'CE1' or 'CP'; the phone number '912345678',
\* '0912345678', '12345678' or '91234567a'; after the primary parent 5 empty
\* cells, 6 empty cells, or the cells 'Oui', 'NGUYEN', 'thi lan',
\* 'Lan@X.com ', '987654321', ''; the fee '100,000' or '200,000'.
ScenarioRows ==
    {ScenarioRow(time, grade, phone, trailing, fee) :
        time \in {<<48, 55, 47, 48, 49, 47, 50, 48, 50, 48, 32, 49, 48, 58, 48, 48, 58, 48, 48>>, <<48, 55, 47, 48, 49, 47, 50, 48, 50, 48>>},
        grade \in {<<67, 69, 49>>, <<67, 80>>},
        phone \in {<<57, 49, 50, 51, 52, 53, 54, 55, 56>>, <<48, 57, 49, 50, 51, 52, 53, 54, 55, 56>>, <<49, 50, 51, 52, 53, 54, 55, 56>>, <<57, 49, 50, 51, 52, 53, 54, 55, 97>>},
        trailing \in {[i \in 1..5 |-> <<>>], [i \in 1..6 |-> <<>>],
                      <<<<79, 117, 105>>, <<78, 71, 85, 89, 69, 78>>, <<116, 104, 105, 32, 108, 97, 110>>, <<76, 97, 110, 64, 88, 46, 99, 111, 109, 32>>, <<57, 56, 55, 54, 53, 52, 51, 50, 49>>, <<>> >>},
        fee \in {<<49, 48, 48, 44, 48, 48, 48>>, <<50, 48, 48, 44, 48, 48, 48>>}}

ScenarioInit ==
    /\ NotRunning
    /\ \E row \in ScenarioRows, locale \in Locales, detected_locale \in {"vie", "eng"} :
           fn = [op |-> "from_row", row |-> row, locale |-> locale,
                 detected_locale |-> detected_locale, returned |-> FALSE,
                 result |-> [outcome |-> "none", children |-> <<>>,
                             parents |-> <<>>, is_ape_member |-> FALSE]]

\* The loaders call Registration.from_row(row, locale) for a row.
MapRow ==
    /\ ~fn.returned
    /\ fn' = [fn EXCEPT !.returned = TRUE,
                        !.result = RegistrationFromRow(fn.row, fn.locale,
                                                       fn.detected_locale)]
    /\ UNCHANGED run_vars

ScenarioNext == MapRow

ScenarioSpec == ScenarioInit /\ [][ScenarioNext]_vars

\* The row of 31 cells of the scenario.
Scenario31 ==
    ScenarioRow(<<48, 55, 47, 48, 49, 47, 50, 48, 50, 48, 32, 49, 48, 58, 48, 48, 58, 48, 48>>, <<67, 69, 49>>, <<57, 49, 50, 51, 52, 53, 54, 55, 56>>, [i \in 1..5 |-> <<>>], <<49, 48, 48, 44, 48, 48, 48>>)

\* The same row with 6 empty cells after the primary parent: 32 cells.
Scenario32 ==
    ScenarioRow(<<48, 55, 47, 48, 49, 47, 50, 48, 50, 48, 32, 49, 48, 58, 48, 48, 58, 48, 48>>, <<67, 69, 49>>, <<57, 49, 50, 51, 52, 53, 54, 55, 56>>, [i \in 1..6 |-> <<>>], <<49, 48, 48, 44, 48, 48, 48>>)

\* The persons that the scenario expects: one Child of grade level 6 named
\* 'Jane DOE', the primary parent with the phone number '+84.0912345678'
\* and no secondary parent.
ScenarioPersons ==
    /\ fn.result.outcome = "Registration"
    /\ Len(fn.result.children) = 1
    /\ fn.result.children[1].grade_level = 6
    /\ fn.result.children[1].fullname = <<74, 97, 110, 101, 32, 68, 79, 69>>
    /\ Len(fn.result.parents) = 1
    /\ fn.result.parents[1].phone_number = <<43, 56, 52, 46, 48, 57, 49, 50, 51, 52, 53, 54, 55, 56>>

\* C25 (as claimed): with the French locale, the row of 31 cells of the
\* scenario gives one Child of grade level 6 named 'Jane DOE', one primary
\* parent with the phone number '+84.0912345678', no secondary parent, and
\* a membership flag that is true.
C25_Scenario ==
    (fn.op = "from_row" /\ fn.returned /\ fn.row = Scenario31 /\ fn.locale = "fra")
        => (ScenarioPersons /\ fn.result.is_ape_member = TRUE)

\* C25 (amended): the row of 31 cells gives these persons and a membership
\* flag that is false, its last cell being the home address of the secondary
\* parent and the fee cell being empty once the row is padded to 32 cells;
\* the row with 6 empty cells after the primary parent (32 cells) gives the
\* same persons and a membership flag that is true.
C25_ScenarioFeeCell ==
    (fn.op = "from_row" /\ fn.returned /\ fn.locale = "fra")
        => /\ fn.row = Scenario31
               => (ScenarioPersons /\ fn.result.is_ape_member = FALSE)
           /\ fn.row = Scenario32
               => (ScenarioPersons /\ fn.result.is_ape_member = TRUE)

\* C25 witness: the row of 31 cells has been mapped with the French locale.
C25_Witness ==
    /\ fn.returned
    /\ fn.row = Scenario31
    /\ Len(fn.row) = 31
    /\ fn.locale = "fra"
    /\ fn.result.outcome = "Registration"

\* ------------------------------------------ properties of the main loop
\* C26: the processed IDs that a cycle has just fetched hold the ID of
\* every row of the master list whose first column holds an ID, whichever
\* row it is: an ID inserted by a cycle, at any row from 1 on, is among the
\* processed IDs of the next cycle.
C26_FetchReadsEveryId ==
    pc = "count" =>
        \A r \in 1..Len(ledger) :
            ledger[r].a > 0 => ledger[r].a \in processed_registration_ids

\* C27: when the batch holds two registrations with the same ID, and this
\* ID is not in the master list, only the first one is notified and
\* inserted in the cycle: a cycle never sends two e-mails nor inserts two
\* blocks of rows for the same ID.
C27_FirstOfSameIdOnly ==
    \A i, j \in 1..Len(cycle_log) :
        (/\ i < j
         /\ cycle_log[i].op = cycle_log[j].op)
            => source[cycle_log[i].row].registration_id
                   # source[cycle_log[j].row].registration_id

\* C28: the whole source is loaded before the reconciliation starts: when
\* a row of the source is rejected, the cycle ends with this error without
\* any row inserted in the master list and without any e-mail sent, for the
\* valid rows that precede the rejected one too.
C28_IngestBeforeReconcile ==
    (\E r \in 1..Len(source) : source[r].error) =>
        /\ registrations = <<>>
        /\ cycle_log = <<>>
        /\ \A r \in 1..Len(source) : notified[r] = 0 /\ inserted[r] = 0
        /\ ledger \in {<<>>, <<HeaderRow, HeaderRow>>}
        /\ pc \notin {"fetch", "count", "process", "sleep", "done"}

\* C28 witness: the load of a source whose first row is valid, with
\* children, and whose second row is rejected has ended the cycle.
C28_Witness ==
    /\ Len(source) = 2
    /\ ~source[1].error /\ source[1].children >= 1
    /\ source[2].error
    /\ arguments.input = "sheet"
    /\ ledger_sheets = 1
    /\ cycle = 1
    /\ pc = "crashed"

\* ------------------------------------------- confirmation e-mails
\* The files <locale>.html of the folder of the e-mail templates: any set
\* of locales.
TemplateFolders == SUBSET Locales

\* The parents of a registration: the primary parent has the locale of the
\* form, the secondary parent, if any, has this locale or the Vietnamese
\* one when detect_locale finds his or her name Vietnamese.
RegistrationParents ==
    {parents \in UNION {[1..n -> [email_address : EmailAddresses, locale : Locales]] :
                           n \in 1..PARENTS_FIELDS_COUNT} :
        \A i \in 2..Len(parents) : parents[i].locale \in {parents[1].locale, "vie"}}

\* All the parents in one group, with the locale of the first parent.
ParentsLocaleMapping_one_group(parents) ==
    <<[locale |-> parents[1].locale, parents |-> [i \in 1..Len(parents) |-> i]]>>

\* parents_locale_mapping: the parents (their indexes in the list) grouped
\* by locale, the groups in the order in which the dictionary got its keys.
ParentsLocaleMapping(parents) ==
    LET first == {i \in 1..Len(parents) :
                     \A j \in 1..(i - 1) : parents[j].locale # parents[i].locale}
        keys == SelectSeq([i \in 1..Len(parents) |-> i], LAMBDA i : i \in first)
    IN  [g \in 1..Len(keys) |->
            [locale |-> parents[keys[g]].locale,
             parents |-> SelectSeq([i \in 1..Len(parents) |-> i],
                             LAMBDA i : parents[i].locale = parents[keys[g]].locale)]]

\* get_registration_confirmation_email_template: the language of the
\* template read, the English one when the folder has no template for the
\* locale; open() raises when the file is not there.
get_registration_confirmation_email_template(locale, template_path) ==
    IF locale \in template_path THEN locale
    ELSE IF ENGLISH_LOCALE \in template_path THEN ENGLISH_LOCALE
    ELSE "FileNotFoundError"

\* The loop of send_registration_confirmation_email over the groups from
\* the group g on: the e-mails sent, and the exception raised if any.
RECURSIVE SendEmailsFrom(_, _, _, _, _)
SendEmailsFrom(parents, mapping, template_path, g, emails) ==
    IF g > Len(mapping) THEN [outcome |-> "returned", emails |-> emails]
    ELSE LET language == get_registration_confirmation_email_template(
                             mapping[g].locale, template_path)
         IN  IF language = "FileNotFoundError"
             THEN [outcome |-> "FileNotFoundError", emails |-> emails]
             ELSE SendEmailsFrom(parents, mapping, template_path, g + 1,
                      Append(emails,
                          [locale |-> mapping[g].locale,
                           language |-> language,
                           parents |-> mapping[g].parents,
                           parent_email_addresses |->
                               [i \in 1..Len(mapping[g].parents) |->
                                   parents[mapping[g].parents[i]].email_address]]))

\* send_registration_confirmation_email
send_registration_confirmation_email(parents, template_path) ==
    SendEmailsFrom(parents, ParentsLocaleMapping(parents), template_path, 1, <<>>)

MailInit ==
    /\ NotRunning
    /\ \E parents \in RegistrationParents, template_path \in TemplateFolders :
           fn = [op |-> "send_registration_confirmation_email",
                 parents |-> parents, template_path |-> template_path,
                 returned |-> FALSE,
                 result |-> [outcome |-> "none", emails |-> <<>>]]

SendEmails ==
    /\ ~fn.returned
    /\ fn' = [fn EXCEPT !.returned = TRUE,
                        !.result = send_registration_confirmation_email(
                                       fn.parents, fn.template_path)]
    /\ UNCHANGED run_vars

MailNext == SendEmails

MailSpec == MailInit /\ [][MailNext]_vars

\* The registration has been notified: the function has returned.
Notified == fn.returned /\ fn.result.outcome = "returned"

\* One e-mail per locale of the parents, each addressed to exactly the
\* parents of its locale, in their order, and every parent is a recipient
\* of exactly one e-mail.
OneEmailPerLocale ==
    LET emails == fn.result.emails
    IN  /\ Len(emails) =
               Cardinality({fn.parents[i].locale : i \in 1..Len(fn.parents)})
        /\ \A e, f \in 1..Len(emails) :
               e # f => emails[e].locale # emails[f].locale
        /\ \A e \in 1..Len(emails) :
               /\ {emails[e].parents[i] : i \in 1..Len(emails[e].parents)}
                      = {i \in 1..Len(fn.parents) :
                            fn.parents[i].locale = emails[e].locale}
               /\ Len(emails[e].parent_email_addresses) = Len(emails[e].parents)
               /\ \A i \in 1..Len(emails[e].parents) :
                      emails[e].parent_email_addresses[i]
                          = fn.parents[emails[e].parents[i]].email_address
        /\ \A i \in 1..Len(fn.parents) :
               Cardinality({<<e, x>> \in (1..Len(emails)) \X (1..Len(fn.parents)) :
                               /\ x <= Len(emails[e].parents)
                               /\ emails[e].parents[x] = i}) = 1

C30_CycleStep ==
    /\ (pc = "ingest" /\ cycle' = cycle + 1) =>
           IF LoadError = "none"
           THEN pc' = "fetch" /\ registrations' = source
           ELSE pc' = Handled(LoadError)
    /\ (pc = "fetch" /\ pc' \in {"count", "sleep", "done"}) =>
           /\ processed_registration_ids' = fetch_processed_registration_ids(ledger)
           /\ new_registrations' =
                  NewRegistrations(source, fetch_processed_registration_ids(ledger))

====
